---- MODULE Spec2Model ----
\* Model of the billiards aiming widget (BilliardsAim.tsx): table geometry,
\* hit testing and the pointer-drag controller.
\*
\* Coordinates are integers.  Every radius is carried in tenths of a unit so
\* that 12 * 1.4 = 16.8 and 25 * 1.3 = 32.5 are exact, and a circle test
\* dist(p, c) <= r is evaluated as 100 * |p - c|^2 <= (10 r)^2.
EXTENDS Integers, Sequences, FiniteSets

\* ---------------------------------------------------------------- constants
TABLE_W == 1000
TABLE_H == 500
BALL_R == 12
CUSHION == 30

pockets ==
  << [id |-> "TL", x |-> 0,             y |-> 0],
     [id |-> "TM", x |-> TABLE_W \div 2, y |-> 0],
     [id |-> "TR", x |-> TABLE_W,       y |-> 0],
     [id |-> "BL", x |-> 0,             y |-> TABLE_H],
     [id |-> "BM", x |-> TABLE_W \div 2, y |-> TABLE_H],
     [id |-> "BR", x |-> TABLE_W,       y |-> TABLE_H] >>

\* ------------------------------------------------------------------- inputs
\* Pointer positions the environment may deliver, in SVG user space (the
\* table-local point is 30 less in each coordinate).  The first NumPoints
\* entries are used.
PointSeq ==
  << [x |-> 280,  y |-> 380],   \* local (250,350): the cue ball's start
     [x |-> 630,  y |-> 230],   \* local (600,200): the object ball's start
     [x |-> 730,  y |-> 40],    \* local (700,10):  the rail marker's start
     [x |-> 35,   y |-> 35],    \* local (5,5):     in pocket TL, outside the interior
     [x |-> 530,  y |-> 53],    \* local (500,23):  within 25 of TM but not within 20
     [x |-> 26,   y |-> 280],   \* local (-4,250):  left of the table
     [x |-> 1033, y |-> 534],   \* local (1003,504): beyond corner BR
     [x |-> 530,  y |-> 280] >> \* local (500,250): the table centre

NumPoints == 6

SvgPoints ==
  {PointSeq[i] : i \in {j \in 1..Len(PointSeq) : j <= NumPoints}}

Modes == {"pocket", "rail1"}

NoPoint == [x |-> 0 - 1000, y |-> 0 - 1000]

\* ------------------------------------------------------------ pure helpers
Min2(a, b) == IF a <= b THEN a ELSE b
Max2(a, b) == IF a >= b THEN a ELSE b
Abs(a) == IF a < 0 THEN 0 - a ELSE a

clamp(val, min, max) == Min2(Max2(val, min), max)

\* Variant: clamps to the table's outline, without the radius padding.
clampPointToInner_noPadding(p) ==
  [x |-> clamp(p.x, 0, TABLE_W), y |-> clamp(p.y, 0, TABLE_H)]

clampPointToInner(p) ==
  [x |-> clamp(p.x, BALL_R, TABLE_W - BALL_R),
   y |-> clamp(p.y, BALL_R, TABLE_H - BALL_R)]

\* Squared Euclidean distance (dist is its square root).
dist2(a, b) == (a.x - b.x) * (a.x - b.x) + (a.y - b.y) * (a.y - b.y)

\* dist(p, c) <= r, with r given in tenths.
isInsideCircle(p, c, r10) == 100 * dist2(p, c) <= r10 * r10

\* Variant: tests the left and right edges before the top and bottom ones.
clampToRail_leftFirst(p) ==
  LET dTop    == p.y
      dBottom == TABLE_H - p.y
      dLeft   == p.x
      dRight  == TABLE_W - p.x
      min     == Min2(Min2(dTop, dBottom), Min2(dLeft, dRight))
  IN  IF min = dLeft
        THEN [point |-> [x |-> 0, y |-> clamp(p.y, 0, TABLE_H)], edge |-> "left"]
      ELSE IF min = dRight
        THEN [point |-> [x |-> TABLE_W, y |-> clamp(p.y, 0, TABLE_H)], edge |-> "right"]
      ELSE IF min = dTop
        THEN [point |-> [x |-> clamp(p.x, 0, TABLE_W), y |-> 0], edge |-> "top"]
      ELSE [point |-> [x |-> clamp(p.x, 0, TABLE_W), y |-> TABLE_H], edge |-> "bottom"]

\* Variant: the coordinate along the chosen edge is not clamped.
clampToRail_unclampedAlong(p) ==
  LET dTop    == p.y
      dBottom == TABLE_H - p.y
      dLeft   == p.x
      dRight  == TABLE_W - p.x
      min     == Min2(Min2(dTop, dBottom), Min2(dLeft, dRight))
  IN  IF min = dTop THEN [point |-> [x |-> p.x, y |-> 0], edge |-> "top"]
      ELSE IF min = dBottom
        THEN [point |-> [x |-> p.x, y |-> TABLE_H], edge |-> "bottom"]
      ELSE IF min = dLeft THEN [point |-> [x |-> 0, y |-> p.y], edge |-> "left"]
      ELSE [point |-> [x |-> TABLE_W, y |-> p.y], edge |-> "right"]

clampToRail(p) ==
  LET dTop    == p.y
      dBottom == TABLE_H - p.y
      dLeft   == p.x
      dRight  == TABLE_W - p.x
      min     == Min2(Min2(dTop, dBottom), Min2(dLeft, dRight))
  IN  IF min = dTop
        THEN [point |-> [x |-> clamp(p.x, 0, TABLE_W), y |-> 0], edge |-> "top"]
      ELSE IF min = dBottom
        THEN [point |-> [x |-> clamp(p.x, 0, TABLE_W), y |-> TABLE_H], edge |-> "bottom"]
      ELSE IF min = dLeft
        THEN [point |-> [x |-> 0, y |-> clamp(p.y, 0, TABLE_H)], edge |-> "left"]
      ELSE [point |-> [x |-> TABLE_W, y |-> clamp(p.y, 0, TABLE_H)], edge |-> "right"]

\* The CTM inverse has already been applied to sp; the cushion frame is
\* subtracted to obtain the table-local point.
clientToSvg(sp) == [x |-> sp.x - CUSHION, y |-> sp.y - CUSHION]

\* -------------------------------------------------------------- vector math
\* Vectors with integer coordinates are records [x, y].  Real-valued results
\* are carried exactly:
\*   a normalised vector  [x, y, l2]  stands for (x, y) / sqrt(l2);
\*   a cosine             [n, la2, lb2]  stands for n / sqrt(la2 * lb2);
\*   a reflected vector   [x, y, d]   stands for (x, y) / d.
sub(a, b) == [x |-> a.x - b.x, y |-> a.y - b.y]
dot(a, b) == a.x * b.x + a.y * b.y

\* len(v) squared.
len2(v) == v.x * v.x + v.y * v.y

\* Variant: a zero-length vector is replaced by the unit vector (1, 0).
norm_unitFallback(v) ==
  IF len2(v) = 0 THEN [x |-> 1, y |-> 0, l2 |-> 1]
  ELSE [x |-> v.x, y |-> v.y, l2 |-> len2(v)]

\* l = len(v) || 1; the result is v / l.
norm(v) ==
  [x |-> v.x, y |-> v.y, l2 |-> IF len2(v) = 0 THEN 1 ELSE len2(v)]

\* The product a * b of two naturals below 2^22 as three limbs of base 2^11
\* (the product itself does not fit the checker's integers).
WideMul(a, b) ==
  LET K  == 2048
      t0 == (a % K) * (b % K)
      t1 == (a \div K) * (b % K) + (a % K) * (b \div K) + t0 \div K
      t2 == (a \div K) * (b \div K) + t1 \div K
  IN  [h |-> t2, m |-> t1 % K, l |-> t0 % K]

WideLess(u, v) ==
  \/ u.h < v.h
  \/ u.h = v.h /\ u.m < v.m
  \/ u.h = v.h /\ u.m = v.m /\ u.l < v.l

\* acos(clamp(dot(na, nb), -1, 1)), given by its cosine.
angleBetween(a, b) ==
  LET na == norm(a)
      nb == norm(b)
      n  == na.x * nb.x + na.y * nb.y
      an == IF n < 0 THEN 0 - n ELSE n
  IN  IF WideLess(WideMul(na.l2, nb.l2), WideMul(an, an))
        THEN [n |-> IF n < 0 THEN 0 - 1 ELSE 1, la2 |-> 1, lb2 |-> 1]
        ELSE [n |-> n, la2 |-> na.l2, lb2 |-> nb.l2]

\* Variant: mirrors only a vector that runs against the normal.
reflect_onlyAgainstNormal(v, n) ==
  LET l2 == IF len2(n) = 0 THEN 1 ELSE len2(n)
  IN  IF dot(v, n) < 0
        THEN [x |-> v.x * l2 - 2 * dot(v, n) * n.x,
              y |-> v.y * l2 - 2 * dot(v, n) * n.y, d |-> l2]
        ELSE [x |-> v.x * l2, y |-> v.y * l2, d |-> l2]

\* Variant: subtracts the normal component once instead of twice.
reflect_projects(v, n) ==
  LET l2 == IF len2(n) = 0 THEN 1 ELSE len2(n)
  IN  [x |-> v.x * l2 - dot(v, n) * n.x,
       y |-> v.y * l2 - dot(v, n) * n.y, d |-> l2]

\* v - nn * (2 * dot(v, nn)) with nn = norm(n), i.e. v - n * 2 (v.n) / |n|^2.
reflect(v, n) ==
  LET nn == norm(n)
  IN  [x |-> v.x * nn.l2 - 2 * dot(v, n) * nn.x,
       y |-> v.y * nn.l2 - 2 * dot(v, n) * nn.y, d |-> nn.l2]

\* Variant: the ghost ball one radius behind the object ball.
ghostBallForPocket_oneRadius(object, pocket) ==
  [o |-> object, n |-> norm(sub(object, pocket)), k |-> BALL_R]

\* object + n * (2 * BALL_R) with n = norm(object - pocket); the record
\* [o, n, k] stands for o + k * n.
ghostBallForPocket(object, pocket) ==
  [o |-> object, n |-> norm(sub(object, pocket)), k |-> 2 * BALL_R]

RailEdges == {"top", "bottom", "left", "right"}

\* Variant: normals pointing out of the table.
edgeNormal_outward(edge) ==
  CASE edge = "top"    -> [x |-> 0, y |-> 0 - 1]
    [] edge = "bottom" -> [x |-> 0, y |-> 1]
    [] edge = "left"   -> [x |-> 0 - 1, y |-> 0]
    [] edge = "right"  -> [x |-> 1, y |-> 0]

edgeNormal(edge) ==
  CASE edge = "top"    -> [x |-> 0, y |-> 1]
    [] edge = "bottom" -> [x |-> 0, y |-> 0 - 1]
    [] edge = "left"   -> [x |-> 1, y |-> 0]
    [] edge = "right"  -> [x |-> 0 - 1, y |-> 0]

\* pocketData for given cue, object ball and pocket.
pocketDataOf(c, o, pk) ==
  LET objToPocket == sub([x |-> pk.x, y |-> pk.y], o)
      objToCue    == sub(c, o)
  IN  [ghost |-> ghostBallForPocket(o, [x |-> pk.x, y |-> pk.y]),
       objToPocket |-> objToPocket,
       objToCue |-> objToCue,
       cutAngle |-> angleBetween(objToPocket, objToCue)]

\* railData for given raw marker, cue and object ball.
railDataOf(rpt, c, o) ==
  LET cr        == clampToRail(rpt)
      incoming  == sub(cr.point, c)
      normal    == edgeNormal(cr.edge)
      reflected == reflect(incoming, normal)
      toObj     == sub(o, cr.point)
  IN  [rp |-> cr.point, edge |-> cr.edge, incoming |-> incoming,
       normal |-> normal, reflected |-> reflected, toObj |-> toObj,
       mismatch |-> angleBetween([x |-> reflected.x, y |-> reflected.y], toObj)]

\* -------------------------------------------------------------------- state
VARIABLES
  isCoarse,          \* (pointer: coarse) media query, fixed for the session
  mode,
  cue,
  obj,
  selectedPocketId,
  railPoint,
  dragTarget,        \* dragRef.current.target
  captured,          \* the pointer is captured by an element of the svg
  lastEvent,         \* history: the event just handled and its local point
  sinceUp,           \* history: a pointer-up happened and no pointer-down since
  gest,              \* history: progress of a down / move / up gesture
  geo,               \* the last geometry routine applied, its inputs and result
  twin               \* a second session fed the same events, modes apart

vars == << isCoarse, mode, cue, obj, selectedPocketId, railPoint, dragTarget,
           captured, lastEvent, sinceUp, gest, geo, twin >>

\* Tenths: 1.4 or 2.0.
HIT_SCALE == IF isCoarse THEN 20 ELSE 14
RAIL_HIT_HALF == IF isCoarse THEN 22 ELSE 14

\* 20 * (isCoarse ? 1.3 : 1) and 25 * (isCoarse ? 1.3 : 1), in tenths.
pocketDownRadius == IF isCoarse THEN 260 ELSE 200
pocketMoveRadius == IF isCoarse THEN 325 ELSE 250

\* railData.rp: the marker snapped to its nearest rail.
railDataRp == clampToRail(railPoint).point

\* The derived values recomputed on every render.
selectedPocket == CHOOSE pk \in {pockets[i] : i \in 1..Len(pockets)} : pk.id = selectedPocketId
pocketData == pocketDataOf(cue, obj, selectedPocket)
railData == railDataOf(railPoint, cue, obj)

\* Index of the first pocket, in list order, whose circle of radius r10
\* (tenths) contains p; 0 when there is none.
RECURSIVE firstPocketFrom(_, _, _)
firstPocketFrom(i, p, r10) ==
  IF i > Len(pockets) THEN 0
  ELSE IF isInsideCircle(p, pockets[i], r10) THEN i
  ELSE firstPocketFrom(i + 1, p, r10)

firstPocket(p, r10) == firstPocketFrom(1, p, r10)


\* ------------------------------------------------------------ drag targets
pocketTarget(i) == "pocket:" \o pockets[i].id

DragTargets ==
  {"none", "cue", "obj", "rail"} \cup {pocketTarget(i) : i \in 1..Len(pockets)}

isPocketTarget(t) == t \in {pocketTarget(i) : i \in 1..Len(pockets)}

\* The target onPointerDown chooses for local point p: pockets first, then
\* the cue ball, the object ball, the rail handle, else none.
downTarget_cueBeforePockets(p) ==
  IF isInsideCircle(p, cue, BALL_R * HIT_SCALE) THEN "cue"
  ELSE IF firstPocket(p, pocketDownRadius) # 0
    THEN pocketTarget(firstPocket(p, pocketDownRadius))
  ELSE IF isInsideCircle(p, obj, BALL_R * HIT_SCALE) THEN "obj"
  ELSE IF /\ Abs(p.x - railDataRp.x) <= RAIL_HIT_HALF
          /\ Abs(p.y - railDataRp.y) <= RAIL_HIT_HALF THEN "rail"
  ELSE "none"

\* Variant: the rail handle is hit-tested around the raw marker position.
downTarget_rawRail(p) ==
  IF firstPocket(p, pocketDownRadius) # 0
    THEN pocketTarget(firstPocket(p, pocketDownRadius))
  ELSE IF isInsideCircle(p, cue, BALL_R * HIT_SCALE) THEN "cue"
  ELSE IF isInsideCircle(p, obj, BALL_R * HIT_SCALE) THEN "obj"
  ELSE IF /\ Abs(p.x - railPoint.x) <= RAIL_HIT_HALF
          /\ Abs(p.y - railPoint.y) <= RAIL_HIT_HALF THEN "rail"
  ELSE "none"

downTarget(p) ==
  IF firstPocket(p, pocketDownRadius) # 0
    THEN pocketTarget(firstPocket(p, pocketDownRadius))
  ELSE IF isInsideCircle(p, cue, BALL_R * HIT_SCALE) THEN "cue"
  ELSE IF isInsideCircle(p, obj, BALL_R * HIT_SCALE) THEN "obj"
  ELSE IF /\ Abs(p.x - railDataRp.x) <= RAIL_HIT_HALF
          /\ Abs(p.y - railDataRp.y) <= RAIL_HIT_HALF THEN "rail"
  ELSE "none"

\* ------------------------------------------------------------------ history
Event(type, p) == [type |-> type, p |-> p]

GestIdle == [st |-> "idle", m |-> NoPoint, clear |-> FALSE]

\* p lies outside the interior [r, W-r] x [r, H-r].
OutsideInterior(p) ==
  \/ p.x < BALL_R \/ p.x > TABLE_W - BALL_R
  \/ p.y < BALL_R \/ p.y > TABLE_H - BALL_R

\* A gesture starts with a pointer-down inside the object ball's hit circle;
\* "clear" records that the point was in no pocket's and not in the cue
\* ball's hit circle.
gestAfterDown(p) ==
  IF isInsideCircle(p, obj, BALL_R * HIT_SCALE)
    THEN [st |-> "down", m |-> NoPoint,
          clear |-> /\ firstPocket(p, pocketDownRadius) = 0
                    /\ ~isInsideCircle(p, cue, BALL_R * HIT_SCALE)]
    ELSE GestIdle

gestAfterMove(p) ==
  IF gest.st = "down" /\ OutsideInterior(p)
    THEN [gest EXCEPT !.st = "moved", !.m = p]
    ELSE GestIdle

gestAfterUp ==
  IF gest.st = "moved" THEN [gest EXCEPT !.st = "done"] ELSE GestIdle

\* ------------------------------------------------------------ second session
\* The handlers as functions of a session record
\* [mode, cue, obj, selectedPocketId, railPoint, dragTarget], for a session
\* on the same device (isCoarse is shared).
Session(m) ==
  [mode |-> m,
   cue |-> [x |-> (TABLE_W * 25) \div 100, y |-> (TABLE_H * 7) \div 10],
   obj |-> [x |-> (TABLE_W * 6) \div 10, y |-> (TABLE_H * 4) \div 10],
   selectedPocketId |-> "BR",
   railPoint |-> [x |-> (TABLE_W * 7) \div 10, y |-> 10],
   dragTarget |-> "none"]

sessionDown(s, p) ==
  LET rp == clampToRail(s.railPoint).point
      k  == firstPocket(p, pocketDownRadius)
  IN  IF k # 0
        THEN [s EXCEPT !.dragTarget = pocketTarget(k),
                       !.selectedPocketId = pockets[k].id]
      ELSE IF isInsideCircle(p, s.cue, BALL_R * HIT_SCALE)
        THEN [s EXCEPT !.dragTarget = "cue"]
      ELSE IF isInsideCircle(p, s.obj, BALL_R * HIT_SCALE)
        THEN [s EXCEPT !.dragTarget = "obj"]
      ELSE IF Abs(p.x - rp.x) <= RAIL_HIT_HALF /\ Abs(p.y - rp.y) <= RAIL_HIT_HALF
        THEN [s EXCEPT !.dragTarget = "rail"]
      ELSE [s EXCEPT !.dragTarget = "none"]

sessionMove(s, p) ==
  LET t == s.dragTarget
      k == firstPocket(p, pocketMoveRadius)
  IN  IF t = "none" THEN s
      ELSE IF t = "cue" THEN [s EXCEPT !.cue = clampPointToInner(p)]
      ELSE IF t = "obj" THEN [s EXCEPT !.obj = clampPointToInner(p)]
      ELSE IF t = "rail"
        THEN [s EXCEPT !.railPoint =
                [x |-> clamp(p.x, 0, TABLE_W), y |-> clamp(p.y, 0, TABLE_H)]]
      ELSE IF k # 0 THEN [s EXCEPT !.selectedPocketId = pockets[k].id]
      ELSE s

sessionUp(s) == [s EXCEPT !.dragTarget = "none"]

sessionReset(s) ==
  [s EXCEPT !.cue = [x |-> (TABLE_W * 25) \div 100, y |-> (TABLE_H * 7) \div 10],
            !.obj = [x |-> (TABLE_W * 6) \div 10, y |-> (TABLE_H * 4) \div 10],
            !.railPoint = [x |-> (TABLE_W * 7) \div 10, y |-> 10]]

sessionSetMode(s, m) == [s EXCEPT !.mode = m]

\* No geometry routine applied yet.
GeoNone == [op |-> "none"]

\* No second session is running.
TwinOff == [mode |-> "off"]

\* ------------------------------------------------------------------ actions
Init ==
  /\ geo = GeoNone
  /\ twin = TwinOff
  /\ isCoarse \in BOOLEAN
  /\ mode = "pocket"
  /\ cue = [x |-> (TABLE_W * 25) \div 100, y |-> (TABLE_H * 7) \div 10]
  /\ obj = [x |-> (TABLE_W * 6) \div 10, y |-> (TABLE_H * 4) \div 10]
  /\ selectedPocketId = "BR"
  /\ railPoint = [x |-> (TABLE_W * 7) \div 10, y |-> 10]
  /\ dragTarget = "none"
  /\ captured = FALSE
  /\ lastEvent = Event("init", NoPoint)
  /\ sinceUp = FALSE
  /\ gest = GestIdle

onPointerDown(sp) ==
  LET p == clientToSvg(sp)
      t == downTarget(p)
  IN  /\ captured' = TRUE
      /\ dragTarget' = t
      /\ selectedPocketId' =
           IF isPocketTarget(t) THEN pockets[firstPocket(p, pocketDownRadius)].id
           ELSE selectedPocketId
      /\ lastEvent' = Event("down", p)
      /\ sinceUp' = FALSE
      /\ gest' = gestAfterDown(p)
      /\ UNCHANGED << isCoarse, mode, cue, obj, railPoint >>

\* The entity values after onPointerMove at local point p with target t.
moveUpdate_railSnapped(t, p) ==
  [cue |-> IF t = "cue" THEN clampPointToInner(p) ELSE cue,
   obj |-> IF t = "obj" THEN clampPointToInner(p) ELSE obj,
   railPoint |-> IF t = "rail" THEN clampToRail(p).point ELSE railPoint,
   selectedPocketId |->
     IF isPocketTarget(t) /\ firstPocket(p, pocketMoveRadius) # 0
       THEN pockets[firstPocket(p, pocketMoveRadius)].id
       ELSE selectedPocketId]

moveUpdate_objUnclamped(t, p) ==
  [cue |-> IF t = "cue" THEN clampPointToInner(p) ELSE cue,
   obj |-> IF t = "obj" THEN p ELSE obj,
   railPoint |->
     IF t = "rail"
       THEN [x |-> clamp(p.x, 0, TABLE_W), y |-> clamp(p.y, 0, TABLE_H)]
       ELSE railPoint,
   selectedPocketId |->
     IF isPocketTarget(t) /\ firstPocket(p, pocketMoveRadius) # 0
       THEN pockets[firstPocket(p, pocketMoveRadius)].id
       ELSE selectedPocketId]

moveUpdate_bothBalls(t, p) ==
  [cue |-> IF t \in {"cue", "obj"} THEN clampPointToInner(p) ELSE cue,
   obj |-> IF t = "obj" THEN clampPointToInner(p) ELSE obj,
   railPoint |->
     IF t = "rail"
       THEN [x |-> clamp(p.x, 0, TABLE_W), y |-> clamp(p.y, 0, TABLE_H)]
       ELSE railPoint,
   selectedPocketId |->
     IF isPocketTarget(t) /\ firstPocket(p, pocketMoveRadius) # 0
       THEN pockets[firstPocket(p, pocketMoveRadius)].id
       ELSE selectedPocketId]

moveUpdate_downRadius(t, p) ==
  [cue |-> IF t = "cue" THEN clampPointToInner(p) ELSE cue,
   obj |-> IF t = "obj" THEN clampPointToInner(p) ELSE obj,
   railPoint |->
     IF t = "rail"
       THEN [x |-> clamp(p.x, 0, TABLE_W), y |-> clamp(p.y, 0, TABLE_H)]
       ELSE railPoint,
   selectedPocketId |->
     IF isPocketTarget(t) /\ firstPocket(p, pocketDownRadius) # 0
       THEN pockets[firstPocket(p, pocketDownRadius)].id
       ELSE selectedPocketId]

moveUpdate_railOnlyInRailMode(t, p) ==
  [cue |-> IF t = "cue" THEN clampPointToInner(p) ELSE cue,
   obj |-> IF t = "obj" THEN clampPointToInner(p) ELSE obj,
   railPoint |->
     IF t = "rail" /\ mode = "rail1"
       THEN [x |-> clamp(p.x, 0, TABLE_W), y |-> clamp(p.y, 0, TABLE_H)]
       ELSE railPoint,
   selectedPocketId |->
     IF isPocketTarget(t) /\ firstPocket(p, pocketMoveRadius) # 0
       THEN pockets[firstPocket(p, pocketMoveRadius)].id
       ELSE selectedPocketId]

moveUpdate(t, p) ==
  [cue |-> IF t = "cue" THEN clampPointToInner(p) ELSE cue,
   obj |-> IF t = "obj" THEN clampPointToInner(p) ELSE obj,
   railPoint |->
     IF t = "rail"
       THEN [x |-> clamp(p.x, 0, TABLE_W), y |-> clamp(p.y, 0, TABLE_H)]
       ELSE railPoint,
   selectedPocketId |->
     IF isPocketTarget(t) /\ firstPocket(p, pocketMoveRadius) # 0
       THEN pockets[firstPocket(p, pocketMoveRadius)].id
       ELSE selectedPocketId]

onPointerMove(sp) ==
  LET p == clientToSvg(sp)
      u == moveUpdate(dragTarget, p)
  IN  /\ IF dragTarget = "none"
           THEN UNCHANGED << cue, obj, railPoint, selectedPocketId >>
           ELSE /\ cue' = u.cue
                /\ obj' = u.obj
                /\ railPoint' = u.railPoint
                /\ selectedPocketId' = u.selectedPocketId
      /\ lastEvent' = Event("move", p)
      /\ gest' = gestAfterMove(p)
      /\ UNCHANGED << isCoarse, mode, dragTarget, captured, sinceUp >>

\* Variant: ends the drag only when the pointer is released over the table.
onPointerUp_onlyOverTable(sp) ==
  LET p == clientToSvg(sp)
  IN  /\ dragTarget' =
           IF p.x >= 0 /\ p.x <= TABLE_W /\ p.y >= 0 /\ p.y <= TABLE_H
             THEN "none" ELSE dragTarget
      /\ captured' = FALSE
      /\ lastEvent' = Event("up", p)
      /\ sinceUp' = TRUE
      /\ gest' = gestAfterUp
      /\ UNCHANGED << isCoarse, mode, cue, obj, selectedPocketId, railPoint >>

onPointerUp(sp) ==
  /\ dragTarget' = "none"
  /\ captured' = FALSE
  /\ lastEvent' = Event("up", clientToSvg(sp))
  /\ sinceUp' = TRUE
  /\ gest' = gestAfterUp
  /\ UNCHANGED << isCoarse, mode, cue, obj, selectedPocketId, railPoint >>

\* The captured pointer is cancelled or loses capture without a pointer-up.
\* The svg registers onPointerDown, onPointerMove and onPointerUp only, so no
\* handler runs.
pointerCancel ==
  /\ captured
  /\ captured' = FALSE
  /\ lastEvent' = Event("cancel", NoPoint)
  /\ gest' = GestIdle
  /\ UNCHANGED << isCoarse, mode, cue, obj, selectedPocketId, railPoint,
                  dragTarget, sinceUp >>

\* Variant: also restores the default pocket.
reset_alsoPocket ==
  /\ cue' = [x |-> (TABLE_W * 25) \div 100, y |-> (TABLE_H * 7) \div 10]
  /\ obj' = [x |-> (TABLE_W * 6) \div 10, y |-> (TABLE_H * 4) \div 10]
  /\ railPoint' = [x |-> (TABLE_W * 7) \div 10, y |-> 10]
  /\ selectedPocketId' = "BR"
  /\ lastEvent' = Event("reset", NoPoint)
  /\ gest' = GestIdle
  /\ UNCHANGED << isCoarse, mode, dragTarget, captured, sinceUp >>

reset ==
  /\ cue' = [x |-> (TABLE_W * 25) \div 100, y |-> (TABLE_H * 7) \div 10]
  /\ obj' = [x |-> (TABLE_W * 6) \div 10, y |-> (TABLE_H * 4) \div 10]
  /\ railPoint' = [x |-> (TABLE_W * 7) \div 10, y |-> 10]
  /\ lastEvent' = Event("reset", NoPoint)
  /\ gest' = GestIdle
  /\ UNCHANGED << isCoarse, mode, selectedPocketId, dragTarget, captured, sinceUp >>

\* Variant: switching the mode also restores the default positions.
setMode_resetsPositions(m) ==
  /\ mode' = m
  /\ cue' = [x |-> (TABLE_W * 25) \div 100, y |-> (TABLE_H * 7) \div 10]
  /\ obj' = [x |-> (TABLE_W * 6) \div 10, y |-> (TABLE_H * 4) \div 10]
  /\ railPoint' = [x |-> (TABLE_W * 7) \div 10, y |-> 10]
  /\ lastEvent' = Event("setMode", NoPoint)
  /\ gest' = GestIdle
  /\ UNCHANGED << isCoarse, selectedPocketId, dragTarget, captured, sinceUp >>

setMode(m) ==
  /\ mode' = m
  /\ lastEvent' = Event("setMode", NoPoint)
  /\ gest' = GestIdle
  /\ UNCHANGED << isCoarse, cue, obj, selectedPocketId, railPoint, dragTarget,
                  captured, sinceUp >>

Next ==
  \/ \E sp \in SvgPoints : onPointerDown(sp) /\ UNCHANGED << geo, twin >>
  \/ \E sp \in SvgPoints : onPointerMove(sp) /\ UNCHANGED << geo, twin >>
  \/ \E sp \in SvgPoints : onPointerUp(sp) /\ UNCHANGED << geo, twin >>
  \/ pointerCancel /\ UNCHANGED << geo, twin >>
  \/ reset /\ UNCHANGED << geo, twin >>
  \/ \E m \in Modes : setMode(m) /\ UNCHANGED << geo, twin >>

Spec == Init /\ [][Next]_vars

\* ------------------------------------------------- two sessions, same events
\* Both sessions receive every pointer and reset event; each has its own
\* initial mode and its own setMode calls.
TwinPoints == 4

TwinSvgPoints ==
  {PointSeq[i] : i \in {j \in 1..Len(PointSeq) : j <= TwinPoints}}

TwinInit ==
  /\ isCoarse \in BOOLEAN
  /\ mode = "pocket"
  /\ cue = [x |-> (TABLE_W * 25) \div 100, y |-> (TABLE_H * 7) \div 10]
  /\ obj = [x |-> (TABLE_W * 6) \div 10, y |-> (TABLE_H * 4) \div 10]
  /\ selectedPocketId = "BR"
  /\ railPoint = [x |-> (TABLE_W * 7) \div 10, y |-> 10]
  /\ dragTarget = "none"
  /\ captured = FALSE
  /\ lastEvent = Event("init", NoPoint)
  /\ sinceUp = FALSE
  /\ gest = GestIdle
  /\ geo = GeoNone
  /\ twin \in {Session(m) : m \in Modes}

TwinNext ==
  \/ \E sp \in TwinSvgPoints :
       onPointerDown(sp) /\ twin' = sessionDown(twin, clientToSvg(sp)) /\ UNCHANGED geo
  \/ \E sp \in TwinSvgPoints :
       onPointerMove(sp) /\ twin' = sessionMove(twin, clientToSvg(sp)) /\ UNCHANGED geo
  \/ \E sp \in TwinSvgPoints :
       onPointerUp(sp) /\ twin' = sessionUp(twin) /\ UNCHANGED geo
  \/ pointerCancel /\ UNCHANGED << geo, twin >>
  \/ reset /\ twin' = sessionReset(twin) /\ UNCHANGED geo
  \/ \E m \in Modes, m2 \in Modes :
       setMode(m) /\ twin' = sessionSetMode(twin, m2) /\ UNCHANGED geo

TwinSpec == TwinInit /\ [][TwinNext]_vars

\* ------------------------------------------------- geometry routines alone
\* The pure routines applied to sampled inputs; the session stays as
\* constructed.
GeomOff == 5

\* Sample points inside, on and outside the table's outline.
GeomXs ==
  {0 - GeomOff, 0, GeomOff, TABLE_W \div 2, TABLE_W - GeomOff, TABLE_W,
   TABLE_W + GeomOff}

GeomYs ==
  {0 - (GeomOff - 2), 0, GeomOff - 2, TABLE_H \div 2, TABLE_H - (GeomOff - 2),
   TABLE_H, TABLE_H + (GeomOff - 2)}

GeomPoints == {[x |-> a, y |-> b] : a \in GeomXs, b \in GeomYs}

\* Sample vectors.
GeomVecs ==
  {[x |-> a, y |-> b] : a \in {0 - GeomOff, 0 - 1, 0, 1, GeomOff},
                        b \in {0 - GeomOff, 0 - 1, 0, 1, GeomOff}}

\* Ball positions of the interior: its corners, its border and inner points.
BallXs == {BALL_R, TABLE_W \div 4, TABLE_W \div 2, TABLE_W - BALL_R}
BallYs == {BALL_R, TABLE_H \div 5, TABLE_H \div 2, TABLE_H - BALL_R}
BallPoints == {[x |-> a, y |-> b] : a \in BallXs, b \in BallYs}

applyClampToRail(p) ==
  /\ geo = GeoNone
  /\ geo' = [op |-> "clampToRail", p |-> p, r |-> clampToRail(p),
             rr |-> clampToRail(clampToRail(p).point)]
  /\ UNCHANGED << isCoarse, mode, cue, obj, selectedPocketId, railPoint,
                  dragTarget, captured, lastEvent, sinceUp, gest, twin >>

applyReflect(v, e) ==
  /\ geo = GeoNone
  /\ geo' = [op |-> "reflect", v |-> v, edge |-> e,
             r |-> reflect(v, edgeNormal(e))]
  /\ UNCHANGED << isCoarse, mode, cue, obj, selectedPocketId, railPoint,
                  dragTarget, captured, lastEvent, sinceUp, gest, twin >>

applyPocketData(c, o, i) ==
  /\ geo = GeoNone
  /\ geo' = [op |-> "pocketData", cue |-> c, obj |-> o, pocket |-> pockets[i],
             r |-> pocketDataOf(c, o, pockets[i])]
  /\ UNCHANGED << isCoarse, mode, cue, obj, selectedPocketId, railPoint,
                  dragTarget, captured, lastEvent, sinceUp, gest, twin >>

GeomNext ==
  \/ \E p \in GeomPoints : applyClampToRail(p)
  \/ \E v \in GeomVecs, e \in RailEdges : applyReflect(v, e)
  \/ \E c \in BallPoints, o \in BallPoints, i \in 1..Len(pockets) :
       applyPocketData(c, o, i)

GeomSpec == Init /\ [][GeomNext]_vars

\* ------------------------------------------------------------------ claims
\* Reference values, written out with the numbers of the statement.
RefInterior(p) ==
  [x |-> IF p.x < 12 THEN 12 ELSE IF p.x > 988 THEN 988 ELSE p.x,
   y |-> IF p.y < 12 THEN 12 ELSE IF p.y > 488 THEN 488 ELSE p.y]

RefBox(p) ==
  [x |-> IF p.x < 0 THEN 0 ELSE IF p.x > 1000 THEN 1000 ELSE p.x,
   y |-> IF p.y < 0 THEN 0 ELSE IF p.y > 500 THEN 500 ELSE p.y]

RefInPocket(p, i, r10) ==
  100 * ((p.x - pockets[i].x) * (p.x - pockets[i].x)
         + (p.y - pockets[i].y) * (p.y - pockets[i].y)) <= r10 * r10

RefInBall(p, c) ==
  100 * ((p.x - c.x) * (p.x - c.x) + (p.y - c.y) * (p.y - c.y))
    <= (IF isCoarse THEN 240 * 240 ELSE 168 * 168)

\* The pockets containing p at pointer-down (radius 20, coarse 26) and at
\* pointer-move (radius 25, coarse 32.5).
RefDownPockets(p) ==
  {i \in 1..6 : RefInPocket(p, i, IF isCoarse THEN 260 ELSE 200)}

RefMovePockets(p) ==
  {i \in 1..6 : RefInPocket(p, i, IF isCoarse THEN 325 ELSE 250)}

RefLeast(S) == CHOOSE i \in S : \A j \in S : i <= j

RefInRailSquare(p) ==
  LET rp == clampToRail(railPoint).point
      half == IF isCoarse THEN 22 ELSE 14
  IN  Abs(p.x - rp.x) <= half /\ Abs(p.y - rp.y) <= half

RefTarget(p) ==
  IF RefDownPockets(p) # {}
    THEN "pocket:" \o pockets[RefLeast(RefDownPockets(p))].id
  ELSE IF RefInBall(p, cue) THEN "cue"
  ELSE IF RefInBall(p, obj) THEN "obj"
  ELSE IF RefInRailSquare(p) THEN "rail"
  ELSE "none"

\* C1: in every reachable state both balls lie in [12, 988] x [12, 488].
C1_BallsInsideInterior ==
  /\ 12 <= cue.x /\ cue.x <= 988 /\ 12 <= cue.y /\ cue.y <= 488
  /\ 12 <= obj.x /\ obj.x <= 988 /\ 12 <= obj.y /\ obj.y <= 488

\* C1 witness: the cue ball has just been dragged to a point outside the
\* interior and sits on the interior's border.
C1_Witness ==
  /\ lastEvent.type = "move" /\ dragTarget = "cue"
  /\ OutsideInterior(lastEvent.p)
  /\ cue = RefInterior(lastEvent.p)

\* C2: when the pointer leaves capture without a pointer-up, the drag target
\* is none afterwards.
C2_CancelEndsDrag == lastEvent.type = "cancel" => dragTarget = "none"

\* C3: after any pointer-up the drag target is none, and until the next
\* pointer-down every pointer-move leaves the entity state unchanged.
C3_UpEndsDrag ==
  /\ [](lastEvent.type = "up" => dragTarget = "none")
  /\ [](sinceUp => dragTarget = "none")
  /\ [][(sinceUp /\ lastEvent'.type = "move") =>
          UNCHANGED << cue, obj, railPoint, selectedPocketId, mode >>]_vars

\* C3 witness: after a drag that moved the cue ball and a pointer-up outside
\* the table, a pointer-move has been handled.
C3_Witness ==
  /\ sinceUp /\ lastEvent.type = "move" /\ dragTarget = "none"
  /\ cue # [x |-> 250, y |-> 350]
  /\ lastEvent.p # cue

\* C4: pointer-down at p chooses the target by the fixed priority pocket
\* (first in list order), cue, object, rail marker, none; a pocket hit also
\* selects that pocket at once.
C4_DownPriority ==
  [][lastEvent'.type = "down" =>
       /\ dragTarget' = RefTarget(lastEvent'.p)
       /\ RefDownPockets(lastEvent'.p) # {} =>
            selectedPocketId' = pockets[RefLeast(RefDownPockets(lastEvent'.p))].id
       /\ RefDownPockets(lastEvent'.p) = {} => UNCHANGED selectedPocketId]_vars

\* C4 witness: a pointer-down inside both a pocket's and the cue ball's hit
\* circle chose the pocket.
C4_Witness ==
  /\ lastEvent.type = "down"
  /\ RefDownPockets(lastEvent.p) # {}
  /\ RefInBall(lastEvent.p, cue)
  /\ dragTarget = "pocket:TL" /\ selectedPocketId = "TL"

\* C5 (as stated): after down inside the object ball's hit circle, move to m
\* outside the interior, up, the object ball is at clampToInterior(m).
C5_DragObjectAsStated == gest.st = "done" => obj = RefInterior(gest.m)

\* C5 (amended): the same, for a pointer-down point that lies in no pocket's
\* hit circle and not in the cue ball's hit circle.
C5_DragObject == (gest.st = "done" /\ gest.clear) => obj = RefInterior(gest.m)

\* C5 witness: such a gesture has completed.
C5_Witness ==
  /\ gest.st = "done" /\ gest.clear /\ lastEvent.type = "up"
  /\ OutsideInterior(gest.m) /\ obj = RefInterior(gest.m)

\* C6: a pointer-move at p with target cue (object) sets that ball to
\* clampToInterior(p) and changes nothing else.
C6_MoveBall ==
  [][lastEvent'.type = "move" =>
       /\ dragTarget = "cue" =>
            /\ cue' = RefInterior(lastEvent'.p)
            /\ UNCHANGED << obj, railPoint, selectedPocketId, mode, dragTarget >>
       /\ dragTarget = "obj" =>
            /\ obj' = RefInterior(lastEvent'.p)
            /\ UNCHANGED << cue, railPoint, selectedPocketId, mode, dragTarget >>]_vars

\* C6 witness: the object ball has just been dragged to a point of the
\* interior away from the cue ball.
C6_Witness ==
  /\ lastEvent.type = "move" /\ dragTarget = "obj"
  /\ obj = lastEvent.p /\ obj # [x |-> 600, y |-> 200] /\ cue # obj

\* C7: a pointer-move at p with target rail stores p clamped to
\* [0,1000] x [0,500], unsnapped, and changes no other entity; the rail marker
\* position is always in that box.
C7_MoveRail ==
  /\ [](/\ 0 <= railPoint.x /\ railPoint.x <= 1000
        /\ 0 <= railPoint.y /\ railPoint.y <= 500)
  /\ [][(lastEvent'.type = "move" /\ dragTarget = "rail") =>
          /\ railPoint' = RefBox(lastEvent'.p)
          /\ UNCHANGED << cue, obj, selectedPocketId, mode, dragTarget >>]_vars

\* C7 witness: the rail marker has been dragged to a point strictly inside
\* the table and is stored there, off every edge.
C7_Witness ==
  /\ lastEvent.type = "move" /\ dragTarget = "rail"
  /\ railPoint = lastEvent.p
  /\ 0 < railPoint.x /\ railPoint.x < 1000 /\ 0 < railPoint.y /\ railPoint.y < 500
  /\ railPoint # [x |-> 700, y |-> 10]

\* C8: a pointer-move at p with a pocket target selects the pocket whose
\* enlarged circle contains p, keeps the selection when there is none, and
\* changes no position and not the drag target.
C8_MovePocket ==
  [][(lastEvent'.type = "move" /\ isPocketTarget(dragTarget)) =>
       /\ selectedPocketId' =
            IF RefMovePockets(lastEvent'.p) # {}
              THEN pockets[RefLeast(RefMovePockets(lastEvent'.p))].id
              ELSE selectedPocketId
       /\ UNCHANGED << cue, obj, railPoint, dragTarget >>]_vars

\* C8 witness: a drag started on pocket TL has moved into the enlarged circle
\* of TM, outside TM's pointer-down circle, and TM is selected.
C8_Witness ==
  /\ lastEvent.type = "move" /\ dragTarget = "pocket:TL"
  /\ RefMovePockets(lastEvent.p) = {2}
  /\ RefDownPockets(lastEvent.p) = {}
  /\ selectedPocketId = "TM"

\* C9: reset restores the three default positions and keeps the selected
\* pocket.
C9_Reset ==
  [][lastEvent'.type = "reset" =>
       /\ cue' = [x |-> 250, y |-> 350]
       /\ obj' = [x |-> 600, y |-> 200]
       /\ railPoint' = [x |-> 700, y |-> 10]
       /\ UNCHANGED selectedPocketId]_vars

\* C9 witness: reset has run after the pocket selection was changed.
C9_Witness ==
  /\ lastEvent.type = "reset" /\ selectedPocketId = "TM"
  /\ cue = [x |-> 250, y |-> 350] /\ obj = [x |-> 600, y |-> 200]
  /\ railPoint = [x |-> 700, y |-> 10]

\* C10: setMode changes only the mode.
C10_SetMode ==
  [][lastEvent'.type = "setMode" =>
       UNCHANGED << cue, obj, railPoint, selectedPocketId, dragTarget >>]_vars

\* C10 witness: the mode has been switched to one-cushion after both balls
\* were moved.
C10_Witness ==
  /\ lastEvent.type = "setMode" /\ mode = "rail1"
  /\ cue # [x |-> 250, y |-> 350] /\ obj # [x |-> 600, y |-> 200]

\* ------------------------------------------------------- claims on geometry
RefCross(a, b) == a.x * b.y - a.y * b.x

\* An angle, given by its cosine, is 0, 90 or 180 degrees.
AngleIsZero(a) ==
  a.n > 0 /\ WideMul(a.n, a.n) = WideMul(a.la2, a.lb2)

AngleIsRight(a) == a.n = 0

AngleIsStraight(a) ==
  a.n < 0 /\ WideMul(0 - a.n, 0 - a.n) = WideMul(a.la2, a.lb2)

\* Cue ball, object ball and pocket are colinear, the object ball between
\* the other two.
RefStraightShot(c, o, pk) ==
  /\ RefCross([x |-> pk.x - o.x, y |-> pk.y - o.y], [x |-> c.x - o.x, y |-> c.y - o.y]) = 0
  /\ (pk.x - o.x) * (c.x - o.x) + (pk.y - o.y) * (c.y - o.y) < 0

\* C11: the cut angle is 0 degrees whenever cue ball, object ball and pocket
\* are colinear with the cue ball and the pocket on opposite sides of the
\* object ball.
C11_StraightShotCutsZero ==
  (geo.op = "pocketData" /\ RefStraightShot(geo.cue, geo.obj, geo.pocket))
    => AngleIsZero(geo.r.cutAngle)

RefStrictlyOutside(p) == p.x < 0 \/ p.x > 1000 \/ p.y < 0 \/ p.y > 500

RefInBox(p) == 0 <= p.x /\ p.x <= 1000 /\ 0 <= p.y /\ p.y <= 500

RefOnSomeEdge(q) ==
  \/ q.y \in {0, 500} /\ 0 <= q.x /\ q.x <= 1000
  \/ q.x \in {0, 1000} /\ 0 <= q.y /\ q.y <= 500

RefIsCorner(q) == q.x \in {0, 1000} /\ q.y \in {0, 500}

\* C12 (as stated): for p strictly outside the table the result lies on an
\* edge, and a second call returns the same point and the same edge.
C12_RailIdempotentAsStated ==
  (geo.op = "clampToRail" /\ RefStrictlyOutside(geo.p)) =>
    /\ RefOnSomeEdge(geo.r.point)
    /\ geo.rr.point = geo.r.point
    /\ geo.rr.edge = geo.r.edge

\* C12 (amended): the second call returns the same point, and the same edge
\* unless that point is a corner of the table.
C12_RailIdempotent ==
  (geo.op = "clampToRail" /\ RefStrictlyOutside(geo.p)) =>
    /\ RefOnSomeEdge(geo.r.point)
    /\ geo.rr.point = geo.r.point
    /\ ~RefIsCorner(geo.r.point) => geo.rr.edge = geo.r.edge

\* C12 witness: a point beyond a corner, nearer (signed) to the left rail,
\* was snapped to the corner; the second call names the top rail.
C12_Witness ==
  /\ geo.op = "clampToRail" /\ RefStrictlyOutside(geo.p)
  /\ geo.p.x < 0 /\ geo.p.y < 0
  /\ geo.r.point = [x |-> 0, y |-> 0] /\ geo.r.edge = "left"
  /\ geo.rr.point = geo.r.point /\ geo.rr.edge = "top"

\* C13: for every reachable object ball position and every pocket the ghost
\* ball is object + 24 * unit(object - pocket): on the ray from the pocket
\* through the object ball, beyond it, 24 away; object - pocket is never zero.
C13_GhostBall ==
  \A i \in 1..6 :
    LET pk == [x |-> pockets[i].x, y |-> pockets[i].y]
        g  == pocketDataOf(cue, obj, pockets[i]).ghost
        v  == [x |-> obj.x - pk.x, y |-> obj.y - pk.y]
    IN  /\ v # [x |-> 0, y |-> 0]
        /\ g.o = obj
        /\ g.k = 24
        /\ g.n.x * g.n.x + g.n.y * g.n.y = g.n.l2
        /\ RefCross(g.n, v) = 0
        /\ g.n.x * v.x + g.n.y * v.y > 0

\* C13 witness: the object ball has been dragged into the corner next to the
\* selected pocket TL.
C13_Witness ==
  /\ obj = [x |-> 12, y |-> 12] /\ selectedPocketId = "TL"
  /\ pocketData.ghost.o = obj /\ pocketData.ghost.n.x = 12 /\ pocketData.ghost.n.y = 12

\* C14: reflect mirrors in the rail: (x, y) becomes (x, -y) for the top and
\* bottom normals and (-x, y) for the left and right ones; with the top
\* normal (1, -1) becomes (1, 1).
C14_ReflectMirrors ==
  geo.op = "reflect" =>
    /\ geo.r.d = 1
    /\ geo.edge \in {"top", "bottom"} => (geo.r.x = geo.v.x /\ geo.r.y = 0 - geo.v.y)
    /\ geo.edge \in {"left", "right"} => (geo.r.x = 0 - geo.v.x /\ geo.r.y = geo.v.y)

\* C14 witness: (1, -1) reflected at the top rail gave (1, 1).
C14_Witness ==
  /\ geo.op = "reflect" /\ geo.edge = "top"
  /\ geo.v = [x |-> 1, y |-> 0 - 1]
  /\ geo.r.x = 1 /\ geo.r.y = 1 /\ geo.r.d = 1

\* The point q lies on the named edge, within the table's bounds.
RefOnEdge(q, e) ==
  /\ e = "top" => (q.y = 0 /\ 0 <= q.x /\ q.x <= 1000)
  /\ e = "bottom" => (q.y = 500 /\ 0 <= q.x /\ q.x <= 1000)
  /\ e = "left" => (q.x = 0 /\ 0 <= q.y /\ q.y <= 500)
  /\ e = "right" => (q.x = 1000 /\ 0 <= q.y /\ q.y <= 500)
  /\ e \in {"top", "bottom", "left", "right"}

\* C15: the rail point of the geometry and of the rail-handle hit test is
\* the marker snapped to a rail: it lies on the edge it names, and a
\* pointer-down grabs the handle only within the square around that point.
C15_RailPointSnapped ==
  /\ [](LET rd == railData
        IN  /\ RefOnEdge(rd.rp, rd.edge)
            /\ rd.edge \in {"top", "bottom"} => rd.rp.x = railPoint.x
            /\ rd.edge \in {"left", "right"} => rd.rp.y = railPoint.y
            /\ rd.incoming = [x |-> rd.rp.x - cue.x, y |-> rd.rp.y - cue.y]
            /\ rd.toObj = [x |-> obj.x - rd.rp.x, y |-> obj.y - rd.rp.y])
  /\ [][(lastEvent'.type = "down" /\ dragTarget' = "rail") =>
          /\ Abs(lastEvent'.p.x - railDataRp.x) <= (IF isCoarse THEN 22 ELSE 14)
          /\ Abs(lastEvent'.p.y - railDataRp.y) <= (IF isCoarse THEN 22 ELSE 14)]_vars

\* C15 witness: the handle was grabbed while the raw marker was off the rail.
C15_Witness ==
  /\ lastEvent.type = "down" /\ dragTarget = "rail"
  /\ railPoint # railData.rp
  /\ RefOnEdge(railData.rp, railData.edge)

\* Distance from p to the line of an edge.
RefEdgeDist(p, e) ==
  CASE e = "top"    -> Abs(p.y)
    [] e = "bottom" -> Abs(500 - p.y)
    [] e = "left"   -> Abs(p.x)
    [] e = "right"  -> Abs(1000 - p.x)

RefEdgeOrder == << "top", "bottom", "left", "right" >>

\* The first edge, in the order top, bottom, left, right, at minimum distance.
RefNearestEdge(p) ==
  LET best == CHOOSE i \in 1..4 :
                /\ \A j \in 1..4 : RefEdgeDist(p, RefEdgeOrder[i]) <= RefEdgeDist(p, RefEdgeOrder[j])
                /\ \A j \in 1..4 :
                     RefEdgeDist(p, RefEdgeOrder[j]) = RefEdgeDist(p, RefEdgeOrder[i]) => i <= j
  IN  RefEdgeOrder[best]

RefNeg(v) == [x |-> 0 - v.x, y |-> 0 - v.y]

\* C17 (as stated): for some cue ball position (the current one or a sampled
\* one), some marker position (the current one or a sampled one) and some
\* edge, negating the edge's normal changes the reflected vector.
C17_NormalSignMattersAsStated ==
  \E c \in BallPoints \cup {cue},
     m \in {q \in GeomPoints : RefInBox(q)} \cup {railPoint},
     e \in RailEdges :
    LET incoming == sub(clampToRail(m).point, c)
    IN  reflect(incoming, RefNeg(edgeNormal(e))) # reflect(incoming, edgeNormal(e))

\* C17 (amended): in every reachable state the reflected vector and the
\* mismatch angle are the same for an edge normal and for its negation.
C17_NormalSignIrrelevant ==
  LET rd  == railData
      neg == reflect(rd.incoming, RefNeg(rd.normal))
  IN  /\ neg = rd.reflected
      /\ \A e \in RailEdges :
           reflect(rd.incoming, RefNeg(edgeNormal(e))) = reflect(rd.incoming, edgeNormal(e))
      /\ angleBetween([x |-> neg.x, y |-> neg.y], rd.toObj) = rd.mismatch

\* C17 witness: in one-cushion mode, with the marker moved to the left rail,
\* the reflected vector differs from the incoming one.
C17_Witness ==
  /\ mode = "rail1" /\ railData.edge = "left"
  /\ [x |-> railData.reflected.x, y |-> railData.reflected.y] # railData.incoming
  /\ reflect(railData.incoming, RefNeg(railData.normal)) = railData.reflected

\* C18 (as stated): with the cue ball on the object ball, the normalised
\* object-to-cue vector has length 1.
C18_ZeroNormIsUnitAsStated ==
  cue = obj =>
    LET n == norm(pocketData.objToCue)
    IN  n.x * n.x + n.y * n.y = n.l2

\* C18 (amended): with the cue ball on the object ball, the normalised
\* object-to-cue vector is the zero vector itself and the cut angle is
\* acos(0), 90 degrees.
C18_ZeroNormIsZero ==
  cue = obj =>
    LET pd == pocketData
    IN  /\ pd.objToCue = [x |-> 0, y |-> 0]
        /\ norm(pd.objToCue) = [x |-> 0, y |-> 0, l2 |-> 1]
        /\ AngleIsRight(pd.cutAngle)

\* C18 witness: the cue ball has been dragged onto the object ball.
C18_Witness ==
  /\ cue = obj /\ lastEvent.type = "move"
  /\ AngleIsRight(pocketData.cutAngle)

\* C19: the snapped rail point never coincides with a ball; incoming,
\* reflected and to-object vectors are nonzero; the incoming vector runs
\* against the edge normal and the reflected one along it.
C19_CushionNonDegenerate ==
  LET rd == railData
  IN  /\ rd.rp # cue /\ rd.rp # obj
      /\ rd.incoming # [x |-> 0, y |-> 0]
      /\ [x |-> rd.reflected.x, y |-> rd.reflected.y] # [x |-> 0, y |-> 0]
      /\ rd.toObj # [x |-> 0, y |-> 0]
      /\ rd.reflected.d = 1
      /\ rd.incoming.x * rd.normal.x + rd.incoming.y * rd.normal.y < 0
      /\ rd.reflected.x * rd.normal.x + rd.reflected.y * rd.normal.y > 0

\* C19 witness: the cue ball touches the left cushion and the marker sits on
\* the left rail right next to it.
C19_Witness ==
  /\ railData.edge = "left" /\ cue.x = 12 /\ railData.rp.y = cue.y
  /\ railData.incoming = [x |-> 0 - 12, y |-> 0]

\* C20: two sessions that differ only in their modes and receive the same
\* pointer and reset events agree on both balls, the rail marker, the
\* selected pocket and the drag target after every event.
C20_ModeIndependent ==
  /\ twin.cue = cue
  /\ twin.obj = obj
  /\ twin.railPoint = railPoint
  /\ twin.selectedPocketId = selectedPocketId
  /\ twin.dragTarget = dragTarget

\* C20 witness: with the sessions in different modes, the rail marker is
\* being dragged in pocket mode and a pocket was selected in one-cushion mode.
C20_Witness ==
  /\ mode = "pocket" /\ twin.mode = "rail1"
  /\ dragTarget = "rail" /\ lastEvent.type = "move"
  /\ railPoint # [x |-> 700, y |-> 10] /\ twin.railPoint = railPoint
  /\ selectedPocketId = "TL" /\ twin.selectedPocketId = "TL"

====
